---- MODULE Spec2Model ----
(***************************************************************************)
(* Model of the single-room WebRTC signaling router (src/index.js, class   *)
(* RoomDO; the module-level variant at the top of the file has the same    *)
(* handlers).                                                              *)
(*                                                                         *)
(* A WebSocket is a number in Channels, numbered in the order of           *)
(* connection.  A clientId string is a sequence of characters (the empty   *)
(* string is the empty sequence); character SP is white space, every other *)
(* character is a positive number.  A JSON object is a record that has     *)
(* exactly the keys the object has.                                        *)
(*                                                                         *)
(*   meta     the meta object of each connection (role, clientId)          *)
(*   host     this.host                                                    *)
(*   clients  this.clients, in insertion order                             *)
(*   wsState  the transport state of each socket: "none" before it is      *)
(*            accepted, "open", "closing" once the server has called       *)
(*            close() on it, "closed" once its close or error listener ran *)
(*   calls    the ws.send and ws.close calls the handler of the last event *)
(*            made, in the order it made them; a send is logged whether or *)
(*            not the transport accepts it, because safeSend swallows the  *)
(*            failure                                                      *)
(*   last     the last event: a connect, a frame on a socket, a cleanup,   *)
(*            a status query with its response                             *)
(*   nSteps   the number of events so far                                  *)
(*   hostView what the peer behind this.host has been told: the clients of *)
(*            its host-registered reply, plus every client-connected and   *)
(*            minus every client-disconnected sent to it since             *)
(***************************************************************************)
EXTENDS Integers, Sequences, FiniteSets, TLC

NumChannels == 3
\* The number of non-empty strings generateClientId can return.
NumIds == 1
\* The number of events (connects, frames, closures) in a run.
MaxSteps == 7

Channels == 1..NumChannels

\* JS null for a WebSocket reference, a role, a clientId.  The null clientId
\* is a value that is no string; the empty string is << >>.
NoWs == 0
NoRole == "null"
NoId == <<-1>>

SP == 0

\* The strings generateClientId can return: the empty string (Math.random()
\* returning 0 gives "0", of which slice(2, 10) is "") and strings of
\* characters that are no white space.
Ids == {<< >>} \cup {<<c>> : c \in 1..NumIds}

\* !clientId for a clientId that is null or a string.
Falsy(clientId) == clientId = NoId \/ clientId = << >>

VARIABLES meta, host, clients, wsState, calls, last, nSteps, hostView

vars == <<meta, host, clients, wsState, calls, last, nSteps, hostView>>

(***************************************************************************)
(* JS Map, in insertion order: a sequence of [id, ws] entries.             *)
(***************************************************************************)
MapHas(m, k) == \E i \in 1..Len(m) : m[i].id = k

MapGet(m, k) ==
    IF MapHas(m, k)
    THEN m[CHOOSE i \in 1..Len(m) : m[i].id = k].ws
    ELSE NoWs

MapSet(m, k, v) ==
    IF MapHas(m, k)
    THEN [i \in 1..Len(m) |-> IF m[i].id = k THEN [id |-> k, ws |-> v] ELSE m[i]]
    ELSE Append(m, [id |-> k, ws |-> v])

MapDelete(m, k) ==
    LET keep(e) == e.id # k IN SelectSeq(m, keep)

\* Variant of MapKeys: the list of identities is left empty.
MapKeys_Empty(m) == << >>

MapKeys(m) == [i \in 1..Len(m) |-> m[i].id]

(***************************************************************************)
(* String.prototype.trim on a character sequence.                          *)
(***************************************************************************)
RECURSIVE TrimStart(_)
TrimStart(s) ==
    IF s = << >> THEN << >>
    ELSE IF Head(s) = SP THEN TrimStart(Tail(s)) ELSE s

RECURSIVE TrimEnd(_)
TrimEnd(s) ==
    IF s = << >> THEN << >>
    ELSE IF s[Len(s)] = SP THEN TrimEnd(SubSeq(s, 1, Len(s) - 1)) ELSE s

\* Variant of Trim: the clientId is used as received.
Trim_None(s) == s

Trim(s) == TrimEnd(TrimStart(s))

(***************************************************************************)
(* Inbound frames.                                                         *)
(***************************************************************************)
SignalTypes == {"offer", "answer", "ice-candidate"}

\* Values a sender can put under "clientId": blank, a string that is no
\* identity, an identity with white space around it, each identity (the
\* empty string among them).
RawClientIds == {<<SP>>, <<1, 1>>, <<SP, 1, SP>>} \cup Ids

\* Payloads: every type bare; offers with each clientId value; an offer that
\* carries an identity and a "from" of the sender's own making.
SignalObjects ==
    {[type |-> t, sdp |-> "X"] : t \in SignalTypes}
    \cup {[type |-> "offer", sdp |-> "X", clientId |-> c] : c \in RawClientIds}
    \cup {[type |-> "offer", sdp |-> "X", clientId |-> <<1>>, from |-> "spoofed"]}

\* A frame is the outcome of JSON.parse on event.data: `json' is
\* "error" when JSON.parse throws, "null" for null, "primitive" for a number,
\* string or boolean, "object" for an object; `typeof' is typeof msg.type,
\* "undefined" when the key is missing.
Frames ==
    {[json |-> "error"], [json |-> "null"], [json |-> "primitive"]}
    \cup {[json |-> "object", typeof |-> "undefined", msg |-> [sdp |-> "X"]]}
    \cup {[json |-> "object", typeof |-> "string", msg |-> [type |-> t]] :
             t \in {"register-host", "client-hello", "ping"}}
    \cup {[json |-> "object", typeof |-> "string", msg |-> o] :
             o \in SignalObjects}

(***************************************************************************)
(* Outbound calls.                                                         *)
(***************************************************************************)
\* safeSend(ws, data): one ws.send call; a throw is swallowed.
safeSend(ws, data) == <<[op |-> "send", ws |-> ws, data |-> data]>>

\* Variant of closeCall: the outgoing socket is not closed.
closeCall_None(ws, code, reason) == << >>

\* ws.close(code, reason) inside try/catch.
closeCall(ws, code, reason) ==
    <<[op |-> "close", ws |-> ws, data |-> [code |-> code, reason |-> reason]]>>

\* The transport state of ws after the server called close() on it.
AfterClose(st, ws) ==
    [st EXCEPT ![ws] = IF st[ws] = "open" THEN "closing" ELSE st[ws]]

ErrorMsg(code) == [type |-> "error", error |-> code]

CloseCode == 1011

\* Math.random().toString(36).slice(2, 10): the values it can return.
generateClientId == Ids

\* {...msg, clientId, from}: copy the payload, then overwrite the two keys.
Forwarded(msg, clientId, from) ==
    [k \in DOMAIN msg \cup {"clientId", "from"} |->
        IF k = "clientId" THEN clientId
        ELSE IF k = "from" THEN from
        ELSE msg[k]]

\* msg.clientId || "" (an absent key reads as undefined).
RawClientId(msg) ==
    IF "clientId" \in DOMAIN msg THEN msg.clientId ELSE << >>

\* Variant of HostKick: the previous host is never kicked.
HostKick_Never(ws) == FALSE

\* if (this.host && this.host !== ws)
HostKick(ws) == host # NoWs /\ host # ws

handleRegisterHost(ws) ==
    /\ meta' = [meta EXCEPT ![ws] = [role |-> "host", clientId |-> NoId]]
    /\ calls' =
          (IF HostKick(ws)
           THEN safeSend(host, ErrorMsg("host-replaced"))
                \o closeCall(host, CloseCode, "host replaced")
           ELSE << >>)
          \o safeSend(ws, [type |-> "host-registered",
                           clients |-> MapKeys(clients)])
    /\ wsState' = IF HostKick(ws) THEN AfterClose(wsState, host) ELSE wsState
    /\ host' = ws
    /\ UNCHANGED clients

\* Variant of HelloIgnored: a socket without a role is turned away too.
HelloIgnored_Unclassified(ws) == meta[ws].role # "client"

\* if (meta.role && meta.role !== "client") return;
HelloIgnored(ws) == meta[ws].role # NoRole /\ meta[ws].role # "client"

\* Variant of ClientKick: the previous holder of the identity is never kicked.
ClientKick_Never(ws, clientId) == FALSE

\* if (existing && existing !== ws)
ClientKick(ws, clientId) ==
    LET existing == MapGet(clients, clientId)
    IN  existing # NoWs /\ existing # ws

handleClientHello(ws, clientId) ==
    IF HelloIgnored(ws)
    THEN /\ calls' = << >>
         /\ UNCHANGED <<meta, host, clients, wsState>>
    ELSE LET existing == MapGet(clients, clientId)
         IN  /\ meta' = [meta EXCEPT ![ws] =
                            [role |-> "client", clientId |-> clientId]]
             /\ calls' =
                   (IF ClientKick(ws, clientId)
                    THEN safeSend(existing, ErrorMsg("client-replaced"))
                         \o closeCall(existing, CloseCode, "client id replaced")
                    ELSE << >>)
                   \o safeSend(ws, [type |-> "client-welcome",
                                    clientId |-> clientId,
                                    hasHost |-> (host # NoWs)])
                   \o (IF host # NoWs
                       THEN safeSend(host, [type |-> "client-connected",
                                            clientId |-> clientId])
                       ELSE << >>)
             /\ wsState' = IF ClientKick(ws, clientId)
                           THEN AfterClose(wsState, existing)
                           ELSE wsState
             /\ clients' = MapSet(clients, clientId, ws)
             /\ UNCHANGED host

\* Variant of handleSignal: a client's frame is forwarded without looking
\* whether there is a host.
handleSignal_NoHostCheck(ws, msg) ==
    /\ calls' =
          IF meta[ws].role = NoRole
          THEN safeSend(ws, ErrorMsg("not-registered"))
          ELSE IF meta[ws].role = "client"
          THEN IF Falsy(meta[ws].clientId)
               THEN << >>
               ELSE safeSend(host, Forwarded(msg, meta[ws].clientId, "client"))
          ELSE IF meta[ws].role = "host"
          THEN LET clientId == Trim(RawClientId(msg))
                   target == MapGet(clients, clientId)
               IN  IF clientId = << >>
                   THEN safeSend(ws, ErrorMsg("missing-clientId"))
                   ELSE IF target = NoWs
                   THEN safeSend(ws, ErrorMsg("unknown-client"))
                   ELSE safeSend(target, Forwarded(msg, clientId, "host"))
          ELSE << >>
    /\ UNCHANGED <<meta, host, clients, wsState>>

\* Variant of handleSignal: a frame from a socket without a role is dropped
\* without a reply.
handleSignal_NoRoleReply(ws, msg) ==
    /\ calls' =
          IF meta[ws].role = "client"
          THEN IF host = NoWs
               THEN safeSend(ws, ErrorMsg("no-host"))
               ELSE IF Falsy(meta[ws].clientId)
               THEN << >>
               ELSE safeSend(host, Forwarded(msg, meta[ws].clientId, "client"))
          ELSE IF meta[ws].role = "host"
          THEN LET clientId == Trim(RawClientId(msg))
                   target == MapGet(clients, clientId)
               IN  IF clientId = << >>
                   THEN safeSend(ws, ErrorMsg("missing-clientId"))
                   ELSE IF target = NoWs
                   THEN safeSend(ws, ErrorMsg("unknown-client"))
                   ELSE safeSend(target, Forwarded(msg, clientId, "host"))
          ELSE << >>
    /\ UNCHANGED <<meta, host, clients, wsState>>

handleSignal(ws, msg) ==
    /\ calls' =
          IF meta[ws].role = NoRole
          THEN safeSend(ws, ErrorMsg("not-registered"))
          ELSE IF meta[ws].role = "client"
          THEN IF host = NoWs
               THEN safeSend(ws, ErrorMsg("no-host"))
               ELSE IF Falsy(meta[ws].clientId)
               THEN << >>
               ELSE safeSend(host, Forwarded(msg, meta[ws].clientId, "client"))
          ELSE IF meta[ws].role = "host"
          THEN LET clientId == Trim(RawClientId(msg))
                   target == MapGet(clients, clientId)
               IN  IF clientId = << >>
                   THEN safeSend(ws, ErrorMsg("missing-clientId"))
                   ELSE IF target = NoWs
                   THEN safeSend(ws, ErrorMsg("unknown-client"))
                   ELSE safeSend(target, Forwarded(msg, clientId, "host"))
          ELSE << >>
    /\ UNCHANGED <<meta, host, clients, wsState>>

\* Variant of IsCurrentHost: the stale-channel guard is missing.
IsCurrentHost_Unguarded(ws) == TRUE

\* if (this.host === ws)
IsCurrentHost(ws) == host = ws

\* Variant of IsCurrentClient: the stale-channel guard is missing.
IsCurrentClient_Always(ws) == TRUE

\* if (existing === ws)
IsCurrentClient(ws) == MapGet(clients, meta[ws].clientId) = ws

cleanup(ws) ==
    IF meta[ws].role = "host"
    THEN IF IsCurrentHost(ws)
         THEN /\ host' = NoWs
              /\ calls' = [i \in 1..Len(clients) |->
                              safeSend(clients[i].ws,
                                       [type |-> "host-disconnected"])[1]]
              /\ UNCHANGED <<meta, clients>>
         ELSE /\ calls' = << >>
              /\ UNCHANGED <<meta, host, clients>>
    ELSE IF meta[ws].role = "client" /\ ~Falsy(meta[ws].clientId)
    THEN IF IsCurrentClient(ws)
         THEN /\ clients' = MapDelete(clients, meta[ws].clientId)
              /\ calls' = IF host # NoWs
                          THEN safeSend(host, [type |-> "client-disconnected",
                                               clientId |-> meta[ws].clientId])
                          ELSE << >>
              /\ UNCHANGED <<meta, host>>
         ELSE /\ calls' = << >>
              /\ UNCHANGED <<meta, host, clients>>
    ELSE /\ calls' = << >>
         /\ UNCHANGED <<meta, host, clients>>

\* The set a host keeps of the room's clients, after one more message.
ViewAfterMessage(view, data) ==
    IF data.type = "host-registered"
    THEN {data.clients[i] : i \in 1..Len(data.clients)}
    ELSE IF data.type = "client-connected"
    THEN view \cup {data.clientId}
    ELSE IF data.type = "client-disconnected"
    THEN view \ {data.clientId}
    ELSE view

RECURSIVE ViewAfterCalls(_, _, _)
ViewAfterCalls(view, to, cs) ==
    IF cs = << >> THEN view
    ELSE ViewAfterCalls(
            IF Head(cs).op = "send" /\ Head(cs).ws = to
            THEN ViewAfterMessage(view, Head(cs).data)
            ELSE view,
            to, Tail(cs))

\* The view of the channel that is the host after the step; nobody's view
\* when the slot is empty.
TrackHostView ==
    hostView' = IF host' = NoWs THEN {}
                ELSE ViewAfterCalls(hostView, host', calls')

\* Variant of healthBody: the host is always reported as connected.
healthBody_HostAlways ==
    [ok |-> TRUE, hostConnected |-> TRUE, clients |-> MapKeys(clients)]

\* The body of the /health response.
healthBody ==
    [ok |-> TRUE, hostConnected |-> (host # NoWs), clients |-> MapKeys(clients)]

Init ==
    /\ meta = [ws \in Channels |-> [role |-> NoRole, clientId |-> NoId]]
    /\ host = NoWs
    /\ clients = << >>
    /\ wsState = [ws \in Channels |-> "none"]
    /\ calls = << >>
    /\ last = [op |-> "init"]
    /\ nSteps = 0
    /\ hostView = {}

\* handleWebSocket: accept the socket, create its meta, attach the listeners.
Connect(ws) ==
    /\ wsState[ws] = "none"
    /\ \A w \in Channels : w < ws => wsState[w] # "none"
    /\ nSteps < MaxSteps
    /\ nSteps' = nSteps + 1
    /\ wsState' = [wsState EXCEPT ![ws] = "open"]
    /\ meta' = [meta EXCEPT ![ws] = [role |-> NoRole, clientId |-> NoId]]
    /\ calls' = << >>
    /\ last' = [op |-> "connect", ws |-> ws]
    /\ UNCHANGED <<host, clients>>
    /\ TrackHostView

\* Variant of Dropped: the sender of a dropped frame is sent an error.
Dropped_Reply ==
    /\ calls' = safeSend(last'.ws, ErrorMsg("bad-frame"))
    /\ UNCHANGED <<meta, host, clients, wsState>>

\* The frame is dropped: the listener returns without calling a handler.
Dropped ==
    /\ calls' = << >>
    /\ UNCHANGED <<meta, host, clients, wsState>>

\* The "message" listener.  A socket the server has called close() on still
\* delivers the frames its peer sent before the peer saw the close.
OnMessage(ws, frame) ==
    /\ wsState[ws] \in {"open", "closing"}
    /\ last' = [op |-> "message", ws |-> ws, frame |-> frame]
    /\ IF frame.json # "object"
       THEN Dropped
       ELSE IF frame.typeof # "string"
       THEN Dropped
       ELSE IF frame.msg.type = "register-host"
       THEN handleRegisterHost(ws)
       ELSE IF frame.msg.type = "client-hello"
       THEN \E clientId \in generateClientId : handleClientHello(ws, clientId)
       ELSE IF frame.msg.type \in SignalTypes
       THEN handleSignal(ws, frame.msg)
       ELSE Dropped
    /\ nSteps < MaxSteps
    /\ nSteps' = nSteps + 1
    /\ TrackHostView

\* The "close" listener; `again' tells that a listener of this socket has
\* already run.
OnClose(ws) ==
    /\ wsState[ws] # "none"
    /\ nSteps < MaxSteps
    /\ nSteps' = nSteps + 1
    /\ last' = [op |-> "cleanup", ws |-> ws, again |-> (wsState[ws] = "closed")]
    /\ wsState' = [wsState EXCEPT ![ws] = "closed"]
    /\ cleanup(ws)
    /\ TrackHostView

\* The "error" listener.
OnError(ws) ==
    /\ wsState[ws] # "none"
    /\ nSteps < MaxSteps
    /\ nSteps' = nSteps + 1
    /\ last' = [op |-> "cleanup", ws |-> ws, again |-> (wsState[ws] = "closed")]
    /\ wsState' = [wsState EXCEPT ![ws] = "closed"]
    /\ cleanup(ws)
    /\ TrackHostView

\* fetch: GET /health.
Health ==
    /\ nSteps < MaxSteps
    /\ nSteps' = nSteps + 1
    /\ last' = [op |-> "health", response |-> healthBody]
    /\ calls' = << >>
    /\ UNCHANGED <<meta, host, clients, wsState>>
    /\ TrackHostView

Next ==
    \/ \E ws \in Channels : Connect(ws)
    \/ \E ws \in Channels : \E frame \in Frames : OnMessage(ws, frame)
    \/ \E ws \in Channels : OnClose(ws)
    \/ \E ws \in Channels : OnError(ws)
    \/ Health

Spec == Init /\ [][Next]_vars

TypeOK ==
    /\ host \in Channels \cup {NoWs}
    /\ \A ws \in Channels : meta[ws].role \in {NoRole, "host", "client"}
    /\ \A ws \in Channels : meta[ws].clientId \in Ids \cup {NoId}

(***************************************************************************)
(* Vocabulary of the properties.                                           *)
(***************************************************************************)
\* The type of the last frame when it reached the switch, "" otherwise.
FrameType(frame) ==
    IF frame.json = "object"
    THEN IF frame.typeof = "string" THEN frame.msg.type ELSE ""
    ELSE ""

LastType == IF last.op = "message" THEN FrameType(last.frame) ELSE ""

LastIsCleanup == last.op = "cleanup"

\* A channel is live while no close() was called on it and no close or error
\* event fired for it.
Live(ws) == wsState[ws] = "open"

LiveHosts == {ws \in Channels : Live(ws) /\ meta[ws].role = "host"}

LiveClients == {ws \in Channels : Live(ws) /\ meta[ws].role = "client"}

Holders(m) == {m[i].ws : i \in 1..Len(m)}

Keys(m) == {m[i].id : i \in 1..Len(m)}

\* The calls of the last handler that went to ws.
CallsTo(ws) == LET to(c) == c.ws = ws IN SelectSeq(calls, to)

SendOf(ws, data) == [op |-> "send", ws |-> ws, data |-> data]

CloseOf(ws, reason) ==
    [op |-> "close", ws |-> ws, data |-> [code |-> 1011, reason |-> reason]]

(***************************************************************************)
(* C1                                                                      *)
(***************************************************************************)
C1_AtMostOneLiveHost ==
    /\ Cardinality(LiveHosts) <= 1
    /\ \A ws \in LiveHosts : host = ws

C1_Replacement ==
    \A ws \in Channels :
        (LastType' = "register-host" /\ last'.ws = ws
         /\ host # NoWs /\ host # ws)
        => /\ Len(calls') = 3
           /\ calls'[1] = SendOf(host, [type |-> "error", error |-> "host-replaced"])
           /\ calls'[2] = CloseOf(host, "host replaced")
           /\ wsState'[host] # "open"
           /\ host' = ws
           /\ LiveHosts' \subseteq {ws}

\* C1: at most one live channel is classified Host, and it is the registry's
\* host; a register-host that arrives while a different channel is the host
\* sends that channel error host-replaced, closes it with reason
\* "host replaced", and leaves the registering channel as the only host.
C1_SingleHost == [](C1_AtMostOneLiveHost) /\ [][C1_Replacement]_vars

\* A host has just been replaced by the channel that registered.
C1_Witness ==
    /\ LastType = "register-host"
    /\ Len(calls) = 3
    /\ calls[2].op = "close"
    /\ calls[2].ws # last.ws
    /\ meta[calls[2].ws].role = "host"
    /\ host = last.ws

(***************************************************************************)
(* C2                                                                      *)
(***************************************************************************)
C2_Ignored ==
    \A ws \in Channels :
        (last'.op = "message" /\ last'.ws = ws
         /\ \/ meta[ws].role = "client" /\ LastType' = "register-host"
            \/ meta[ws].role = "host" /\ LastType' = "client-hello")
        => /\ meta' = meta
           /\ host' = host
           /\ clients' = clients
           /\ calls' = << >>

\* C2: a channel's role never changes once assigned: a register-host on a
\* Client channel and a client-hello on a Host channel leave the roles, the
\* registry and the outbound traffic untouched.
C2_RoleNeverChanges ==
    [][/\ \A ws \in Channels :
            meta[ws].role # NoRole => meta'[ws].role = meta[ws].role
       /\ C2_Ignored]_vars

(***************************************************************************)
(* C3                                                                      *)
(***************************************************************************)
\* C3: no frame received on a Client channel gives it another identity or a
\* second registry entry.  (register-host is left to C2, so that what is
\* decided here is the repeated client-hello and the signaling frames.)
C3_IdentityNeverChanges ==
    [][\A ws \in Channels :
          (last'.op = "message" /\ last'.ws = ws
           /\ LastType' # "register-host"
           /\ meta[ws].role = "client")
          => /\ meta'[ws].clientId = meta[ws].clientId
             /\ clients' = clients]_vars

(***************************************************************************)
(* C4                                                                      *)
(***************************************************************************)
\* C4: no two distinct live Client channels hold the same identity, and each
\* live Client channel is the registry's holder of its identity.
C4_DistinctIdentities ==
    /\ \A a, b \in LiveClients :
          a # b => meta[a].clientId # meta[b].clientId
    /\ \A a \in LiveClients : MapGet(clients, meta[a].clientId) = a

\* generateClientId has just returned an identity another channel held: that
\* channel was closed and the new channel holds the identity.
C4_Witness ==
    /\ LastType = "client-hello"
    /\ Len(calls) >= 2
    /\ calls[1] = SendOf(calls[1].ws, [type |-> "error", error |-> "client-replaced"])
    /\ calls[2].op = "close"
    /\ calls[2].ws # last.ws
    /\ meta[calls[2].ws].clientId = meta[last.ws].clientId
    /\ last.ws \in LiveClients

(***************************************************************************)
(* C5                                                                      *)
(***************************************************************************)
\* C5: a signaling frame from a Client channel, with a host present, makes
\* exactly one call: a send to the host of the payload with clientId set to
\* the sender's identity and from set to "client", whatever clientId and
\* from the payload carried.
C5_ClientForward ==
    (LastType \in SignalTypes /\ meta[last.ws].role = "client" /\ host # NoWs)
    => calls = <<SendOf(host, [type |-> last.frame.msg.type,
                               sdp |-> last.frame.msg.sdp,
                               clientId |-> meta[last.ws].clientId,
                               from |-> "client"])>>

(***************************************************************************)
(* C6                                                                      *)
(***************************************************************************)
\* C6: a signaling frame from a Host channel whose trimmed clientId is not
\* empty and is in the registry makes exactly one call, a send to that
\* client's channel of the payload with that clientId and from "host"; the
\* sender itself receives nothing.
C6_HostForward ==
    (LastType \in SignalTypes /\ meta[last.ws].role = "host"
     /\ Trim(RawClientId(last.frame.msg)) # << >>
     /\ MapHas(clients, Trim(RawClientId(last.frame.msg))))
    => LET clientId == Trim(RawClientId(last.frame.msg))
           target == MapGet(clients, clientId)
       IN  /\ calls = <<SendOf(target, [type |-> last.frame.msg.type,
                                        sdp |-> last.frame.msg.sdp,
                                        clientId |-> clientId,
                                        from |-> "host"])>>
           /\ CallsTo(last.ws) = << >>

(***************************************************************************)
(* C7                                                                      *)
(***************************************************************************)
C7_HostClosure ==
    \A ws \in Channels :
        (LastIsCleanup' /\ last'.ws = ws
         /\ meta[ws].role = "host" /\ host = ws)
        => /\ host' = NoWs
           /\ \A c \in Holders(clients) \ {ws} :
                 CallsTo(c)' = <<SendOf(c, [type |-> "host-disconnected"])>>

C7_NoHostAfter ==
    (LastType \in SignalTypes /\ meta[last.ws].role = "client" /\ host = NoWs)
    => calls = <<SendOf(last.ws, [type |-> "error", error |-> "no-host"])>>

\* C7: when the host closes, the host slot becomes empty and every registered
\* client (every channel in the registry other than the closing one) is sent
\* exactly one host-disconnected; while the slot is empty a client's
\* signaling frame is answered with error no-host.
C7_HostDisconnected == [][C7_HostClosure]_vars /\ [](C7_NoHostAfter)

(***************************************************************************)
(* C8                                                                      *)
(***************************************************************************)
C8_ClientClosure ==
    \A ws \in Channels :
        (LastIsCleanup' /\ last'.ws = ws
         /\ meta[ws].role = "client"
         /\ (Live(ws) \/ MapGet(clients, meta[ws].clientId) = ws))
        => /\ meta[ws].clientId \notin Keys(clients')
           /\ calls' = IF host # NoWs
                       THEN <<SendOf(host, [type |-> "client-disconnected",
                                            clientId |-> meta[ws].clientId])>>
                       ELSE << >>

C8_AbsentUntilAssigned ==
    \A id \in Ids :
        (id \notin Keys(clients) /\ id \in Keys(clients'))
        => /\ LastType' = "client-hello"
           /\ meta'[last'.ws].clientId = id
           /\ MapGet(clients', id) = last'.ws

\* C8: when a Client channel that is live, or that holds its identity in the
\* registry, closes, the host (if there is one) is sent exactly one
\* client-disconnected with that identity and the identity leaves the
\* registry; an identity that is not in the registry enters it only by being
\* assigned by a client-hello.
C8_ClientDisconnected == [][C8_ClientClosure /\ C8_AbsentUntilAssigned]_vars

(***************************************************************************)
(* C9                                                                      *)
(***************************************************************************)
\* The channel is classified but the registry's entry for it is not this
\* channel.
Superseded(ws) ==
    \/ meta[ws].role = "host" /\ host # ws
    \/ /\ meta[ws].role = "client"
       /\ meta[ws].clientId # NoId
       /\ MapGet(clients, meta[ws].clientId) # ws

\* C9: the close or error of a superseded channel changes nothing in the
\* registry and sends nothing.
C9_StaleClosureNoOp ==
    [][\A ws \in Channels :
          (LastIsCleanup' /\ last'.ws = ws /\ Superseded(ws))
          => /\ host' = host
             /\ clients' = clients
             /\ meta' = meta
             /\ calls' = << >>]_vars

\* A replaced host has just closed while the newer host is registered, or a
\* replaced client has just closed while the newer holder is registered.
C9_Witness ==
    /\ LastIsCleanup
    /\ calls = << >>
    /\ \/ /\ meta[last.ws].role = "host"
          /\ host \notin {NoWs, last.ws}
          /\ Live(host)
       \/ /\ meta[last.ws].role = "client"
          /\ MapGet(clients, meta[last.ws].clientId) \notin {NoWs, last.ws}

(***************************************************************************)
(* C10                                                                     *)
(***************************************************************************)
\* C10: a channel whose close or error handler has run is neither the host
\* nor the holder of any identity in the registry.
C10_NoClosedChannelInRegistry ==
    \A ws \in Channels :
        wsState[ws] = "closed" => host # ws /\ ws \notin Holders(clients)

(***************************************************************************)
(* C11                                                                     *)
(***************************************************************************)
Unchanged == meta' = meta /\ host' = host /\ clients' = clients

\* C11: a signaling frame from a Client channel while the host slot is empty
\* makes exactly one call, a send of error no-host to the sender, and leaves
\* the registry and the roles as they were.
C11_NoHost ==
    [][\A ws \in Channels :
          (LastType' \in SignalTypes /\ last'.ws = ws
           /\ meta[ws].role = "client" /\ host = NoWs)
          => /\ calls' = <<SendOf(ws, [type |-> "error", error |-> "no-host"])>>
             /\ Unchanged]_vars

\* A client has just sent a signaling frame to a room without a host.
C11_Witness ==
    /\ LastType \in SignalTypes
    /\ meta[last.ws].role = "client"
    /\ host = NoWs
    /\ Len(calls) = 1
    /\ calls[1].ws = last.ws

(***************************************************************************)
(* C12                                                                     *)
(***************************************************************************)
Spaces(n) == [i \in 1..n |-> SP]

Blank(s) == \A i \in 1..Len(s) : s[i] = SP

\* s is id with white space before and after it.
Padded(id, s) ==
    \E a, b \in 0..Len(s) : s = Spaces(a) \o id \o Spaces(b)

Resolves(s) == ~Blank(s) /\ \E id \in Keys(clients) : Padded(id, s)

\* C12: a signaling frame from a Host channel whose clientId is absent or
\* blank is answered with exactly one error missing-clientId, one whose
\* clientId is, white space aside, no identity of the registry with exactly
\* one error unknown-client; the error goes to the sender, nothing else is
\* sent, and the registry and the roles stay as they were.
C12_UnresolvedTarget ==
    [][\A ws \in Channels :
          (LastType' \in SignalTypes /\ last'.ws = ws
           /\ meta[ws].role = "host"
           /\ ~Resolves(RawClientId(last'.frame.msg)))
          => /\ calls' =
                  <<SendOf(ws, [type |-> "error",
                                error |-> IF Blank(RawClientId(last'.frame.msg))
                                          THEN "missing-clientId"
                                          ELSE "unknown-client"])>>
             /\ Unchanged]_vars

\* A host has just sent a frame with a blank clientId while a client was
\* registered under the empty identity.
C12_Witness ==
    /\ LastType \in SignalTypes
    /\ meta[last.ws].role = "host"
    /\ RawClientId(last.frame.msg) = <<SP>>
    /\ << >> \in Keys(clients)
    /\ calls = <<SendOf(last.ws, [type |-> "error", error |-> "missing-clientId"])>>

(***************************************************************************)
(* C13                                                                     *)
(***************************************************************************)
\* C13: a signaling frame from a channel without a role makes exactly one
\* call, a send of error not-registered to the sender; the channel stays
\* without a role and the registry stays as it was.
C13_NotRegistered ==
    [][\A ws \in Channels :
          (LastType' \in SignalTypes /\ last'.ws = ws /\ meta[ws].role = NoRole)
          => /\ calls' = <<SendOf(ws, [type |-> "error",
                                       error |-> "not-registered"])>>
             /\ Unchanged]_vars

\* A channel without a role has just sent a signaling frame to a room that
\* has a host and a client.
C13_Witness ==
    /\ LastType \in SignalTypes
    /\ meta[last.ws].role = NoRole
    /\ host # NoWs
    /\ clients # << >>
    /\ Len(calls) = 1

(***************************************************************************)
(* C14                                                                     *)
(***************************************************************************)
\* C14: a status query answers hostConnected exactly when the host slot is
\* occupied and clients with the identities of the registry, each once, and
\* changes neither the registry nor any channel's role, identity or socket.
C14_StatusQuery ==
    [][last'.op = "health"
       => /\ last'.response.ok
          /\ last'.response.hostConnected = (host # NoWs)
          /\ {last'.response.clients[i] :
                 i \in 1..Len(last'.response.clients)} = Keys(clients)
          /\ Len(last'.response.clients) = Cardinality(Keys(clients))
          /\ Unchanged
          /\ wsState' = wsState
          /\ calls' = << >>]_vars

\* The status of a room without a host and with a client has just been
\* queried.
C14_Witness ==
    /\ last.op = "health"
    /\ host = NoWs
    /\ clients # << >>
    /\ ~last.response.hostConnected

(***************************************************************************)
(* C15                                                                     *)
(***************************************************************************)
C15_HostReplaced ==
    \A ws \in Channels :
        (LastType' = "register-host" /\ last'.ws = ws /\ host \notin {NoWs, ws})
        => /\ calls' = <<SendOf(host, [type |-> "error",
                                       error |-> "host-replaced"]),
                         CloseOf(host, "host replaced"),
                         SendOf(ws, [type |-> "host-registered",
                                     clients |-> MapKeys(clients)])>>
           /\ host' = ws

C15_ClientReplaced ==
    \A ws \in Channels : \A id \in Ids :
        (LastType' = "client-hello" /\ last'.ws = ws
         /\ meta[ws].role # "host" /\ meta'[ws].clientId = id
         /\ MapGet(clients, id) \notin {NoWs, ws})
        => /\ Len(calls') >= 3
           /\ calls'[1] = SendOf(MapGet(clients, id),
                                 [type |-> "error", error |-> "client-replaced"])
           /\ calls'[2] = CloseOf(MapGet(clients, id), "client id replaced")
           /\ calls'[3] = SendOf(ws, [type |-> "client-welcome",
                                      clientId |-> id,
                                      hasHost |-> (host # NoWs)])
           /\ MapGet(clients', id) = ws

\* C15: a registration that conflicts with a binding of another socket sends
\* that socket the error, then closes it, then makes the reply that follows
\* the registry write; after the handler the binding is the new socket's and
\* no longer the outgoing socket's, whatever the state of the outgoing socket
\* (a send and a close on a socket that is closing or closed fail).
C15_KickOrder == [][C15_HostReplaced /\ C15_ClientReplaced]_vars

\* A socket whose close listener had already run has just been kicked, and
\* the new binding is in place.
C15_Witness ==
    /\ LastType \in {"register-host", "client-hello"}
    /\ Len(calls) >= 3
    /\ calls[2].op = "close"
    /\ wsState[calls[2].ws] = "closed"
    /\ \/ host = last.ws
       \/ MapGet(clients, meta[last.ws].clientId) = last.ws

(***************************************************************************)
(* C16                                                                     *)
(***************************************************************************)
\* C16: a frame that does not parse, is no object, has no string type or has
\* a type the switch does not know makes no call and changes neither the
\* registry nor any channel's role, identity or socket.
C16_Dropped ==
    [][\A ws \in Channels :
          (last'.op = "message" /\ last'.ws = ws
           /\ LastType' \notin {"register-host", "client-hello"} \cup SignalTypes)
          => /\ calls' = << >>
             /\ Unchanged
             /\ wsState' = wsState]_vars

\* A frame without a string type has just arrived in a room that has a host
\* and a client.
C16_Witness ==
    /\ last.op = "message"
    /\ LastType = ""
    /\ host # NoWs
    /\ clients # << >>
    /\ calls = << >>

(***************************************************************************)
(* C17                                                                     *)
(***************************************************************************)
ConnectedCalls ==
    LET connected(c) == c.op = "send" /\ c.data.type = "client-connected"
    IN  SelectSeq(calls, connected)

\* C17: a client-hello from a channel without a role makes it a Client with
\* an identity that the registry binds to it; the channel is sent exactly
\* client-welcome with that identity and with hasHost telling whether there
\* is a host; client-connected with that identity is sent once, to the host,
\* when there is a host, and not at all when there is none.
C17_ClientHello ==
    [][\A ws \in Channels :
          (LastType' = "client-hello" /\ last'.ws = ws /\ meta[ws].role = NoRole)
          => /\ meta'[ws].role = "client"
             /\ meta'[ws].clientId \in Ids
             /\ MapGet(clients', meta'[ws].clientId) = ws
             /\ host' = host
             /\ CallsTo(ws)' = <<SendOf(ws, [type |-> "client-welcome",
                                             clientId |-> meta'[ws].clientId,
                                             hasHost |-> (host # NoWs)])>>
             /\ ConnectedCalls' =
                   IF host # NoWs
                   THEN <<SendOf(host, [type |-> "client-connected",
                                        clientId |-> meta'[ws].clientId])>>
                   ELSE << >>]_vars

\* The fourth event of a run: after two connects and a register-host, the
\* other channel has just said client-hello.
C17_Witness ==
    /\ nSteps = 4
    /\ LastType = "client-hello"
    /\ host \notin {NoWs, last.ws}
    /\ meta[last.ws].role = "client"
    /\ Len(calls) = 2

(***************************************************************************)
(* C18                                                                     *)
(***************************************************************************)
\* C18: while there is a host, the set it has been told (its host-registered
\* list, plus each client-connected, minus each client-disconnected since)
\* is the set of identities of the registry.
C18_HostViewConsistent == host # NoWs => hostView = Keys(clients)

\* The host was told of two clients and has just been told that one left.
C18_Witness ==
    /\ host # NoWs
    /\ LastIsCleanup
    /\ Len(calls) = 1
    /\ calls[1].data.type = "client-disconnected"
    /\ Cardinality(hostView) = 1

(***************************************************************************)
(* C19                                                                     *)
(***************************************************************************)
\* C19: when a close or error listener of a socket has already run, another
\* run of either listener for that socket changes nothing in the registry or
\* the roles and makes no call.
C19_CleanupIdempotent ==
    [][\A ws \in Channels :
          (LastIsCleanup' /\ last'.ws = ws /\ wsState[ws] = "closed")
          => /\ Unchanged
             /\ calls' = << >>]_vars

\* The second listener of a closed client has just run while a host and
\* another client are registered.
C19_Witness ==
    /\ LastIsCleanup
    /\ last.again
    /\ meta[last.ws].role = "client"
    /\ host # NoWs
    /\ clients # << >>
    /\ calls = << >>

(***************************************************************************)
(* C20                                                                     *)
(***************************************************************************)
\* C20: between a channel that is host only and one that is client only, a
\* frame is forwarded with from "host" only when its sender is the
\* registry's host, and with from "client" and clientId id only when its
\* sender is the registry's holder of id.
C20_OnlyCurrentBindingForwards ==
    (LastType \in SignalTypes /\ Len(calls) = 1
     /\ calls[1].data.type \in SignalTypes
     /\ meta[calls[1].ws].role # meta[last.ws].role
     /\ host \notin Holders(clients))
    => IF calls[1].data.from = "host"
       THEN host = last.ws
       ELSE MapGet(clients, calls[1].data.clientId) = last.ws

====
